---- MODULE Spec2Model ----
(***************************************************************************)
(* Model of src/src/lib.rs: BackUpOptions (folder resolution, file         *)
(* enumeration, size), BackUpData (count, JSON text, standalone metadata   *)
(* file) and BackupManager::zip_backup (archive assembly).                 *)
(*                                                                         *)
(* Text is a sequence of atoms: the separator "/", the dot ".", the quote  *)
(* and backslash characters, and pieces of text holding none of them.      *)
(***************************************************************************)
EXTENDS Integers, Sequences, FiniteSets, TLC

VARIABLES
    options,    \* the BackUpOptions value handed to every call
    fs,         \* the filesystem: directory (its components) -> listing
    pc,         \* position of the run
    sizeFiles,  \* `files` of get_backup_size
    idx,        \* position of the running for loop
    total_size, \* `total_size` of get_backup_size
    data,       \* the BackUpData value
    jsonResult, \* the Result create_json_file returned: "none", "ok", "err"
    zipFiles,   \* `files` of zip_backup
    zip,        \* the ZipWriter: state, and the entries written so far
    err,        \* the call whose Err was unwrapped ("none" while running)
    clock,      \* SystemTime::now(), in seconds since the epoch (may be before it)
    vanished    \* number of files removed by other processes so far

vars == <<options, fs, pc, sizeFiles, idx, total_size, data, jsonResult,
          zipFiles, zip, err, clock, vanished>>

----------------------------------------------------------------------------
\* Bounds of the model

\* longest folder_options list
MaxFolders == 2
\* files other processes may remove during one run
MaxVanish == 1
\* longest base directory string (in atoms) of SpecPath
MaxBaseLen == 3
\* largest size_in_bytes / timestamp drawn for SpecJson
MaxNum == 11

----------------------------------------------------------------------------
\* Text

Sep == "/"
Dot == "."
Quote == "\""
Backslash == "\\"

RECURSIVE Split(_)
\* the pieces of s between separators
Split(s) ==
    IF s = <<>> THEN << <<>> >>
    ELSE LET r == Split(Tail(s))
         IN  IF Head(s) = Sep THEN << <<>> >> \o r
             ELSE << <<Head(s)>> \o Head(r) >> \o Tail(r)

\* std::path::Path::components on Unix: the root if the text starts with a
\* separator, a leading "." kept, every other "." and empty piece dropped
Components(s) ==
    LET segs == Split(s)
        hasRoot == s # <<>> /\ Head(s) = Sep
        first == IF hasRoot THEN << <<Sep>> >>
                 ELSE IF segs[1] = <<>> THEN <<>> ELSE << segs[1] >>
        rest == SelectSeq(Tail(segs), LAMBDA g : g # <<>> /\ g # <<Dot>>)
    IN  first \o rest

RECURSIVE JoinComponents(_)
JoinComponents(cs) ==
    IF cs = <<>> THEN <<>>
    ELSE IF Len(cs) = 1 THEN cs[1]
    ELSE cs[1] \o <<Sep>> \o JoinComponents(Tail(cs))

\* Path::has_root / is_absolute on Unix
IsAbsolute(s) == s # <<>> /\ Head(s) = Sep

\* the directory holding the file named by path p, as components
DirKey(p) == LET c == Components(p) IN SubSeq(c, 1, Len(c) - 1)
\* the file name of path p
BaseName(p) == LET c == Components(p) IN c[Len(c)]

----------------------------------------------------------------------------
\* enum Folders and BackUpOptions

Folders == {"Saves", "Config", "Screenshots", "Mods", "Logs", "Backups"}

\* the match of get_all_paths: the fixed subdirectory of a folder tag
FolderName(folder) ==
    CASE folder = "Saves" -> "saves"
      [] folder = "Config" -> "config"
      [] folder = "Screenshots" -> "screenshots"
      [] folder = "Mods" -> "mods"
      [] folder = "Logs" -> "logs"
      [] folder = "Backups" -> "backups"

\* format!("{}/saves", default_minecraft_path) and its five siblings
FolderPath(base, folder) == base \o <<Sep, FolderName(folder)>>

\* BackUpOptions::get_all_paths: one path per tag, in the order of the tags
get_all_paths(opts) ==
    [i \in 1..Len(opts.folder_options) |->
        FolderPath(opts.default_minecraft_path, opts.folder_options[i])]

----------------------------------------------------------------------------
\* The filesystem. A directory is named by its components; its listing is a
\* set of entries [name, kind, len, content], kind "file" (a regular file, or a
\* link to one) or "dir" (anything Path::is_file refuses).

NoDir == [exists |-> FALSE, entries |-> {}]

Dir(fsys, key) == IF key \in DOMAIN fsys THEN fsys[key] ELSE NoDir

\* the entry named by path p, as a set (empty when there is none)
EntryAt(fsys, p) ==
    IF Components(p) = <<>> THEN {}
    ELSE {e \in Dir(fsys, DirKey(p)).entries : e.name = BaseName(p)}

\* Path::exists
Exists(fsys, p) == EntryAt(fsys, p) # {}
\* Path::is_file, and what std::fs::metadata / File::open need of a source file
IsFile(fsys, p) == \E e \in EntryAt(fsys, p) : e.kind = "file"

\* std::fs::write and File::create can succeed: the directory is there and the
\* name is not taken by a directory
CanCreate(fsys, p) ==
    /\ Components(p) # <<>>
    /\ Dir(fsys, DirKey(p)).exists
    /\ \A e \in EntryAt(fsys, p) : e.kind = "file"

\* the filesystem after p was created or truncated with the given content
WriteFile(fsys, p, content) ==
    [fsys EXCEPT ![DirKey(p)].entries =
        {e \in @ : e.name # BaseName(p)}
        \cup {[name |-> BaseName(p), kind |-> "file",
               len |-> Len(content), content |-> content]}]

\* remove_file left out: the standalone file stays
RemoveFile_kept(fsys, p) == fsys

\* std::fs::remove_file
RemoveFile(fsys, p) ==
    [fsys EXCEPT ![DirKey(p)].entries = {e \in @ : e.name # BaseName(p)}]

----------------------------------------------------------------------------
\* Enumeration

\* index of the last "." of a name, 0 when it has none
LastDot(name) ==
    LET dots == {i \in 1..Len(name) : name[i] = Dot}
    IN  IF dots = {} THEN 0 ELSE CHOOSE i \in dots : \A j \in dots : j <= i

\* every "." starts an extension, the first character too
extension_any_dot(name) ==
    LET d == LastDot(name)
    IN  IF d = 0 THEN [some |-> FALSE, ext |-> <<>>]
        ELSE [some |-> TRUE, ext |-> SubSeq(name, d + 1, Len(name))]

\* Path::extension of a file name: the text after the last ".", and none when
\* the name has no "." or its last "." is its first character
extension(name) ==
    LET d == LastDot(name)
    IN  IF d <= 1 THEN [some |-> FALSE, ext |-> <<>>]
        ELSE [some |-> TRUE, ext |-> SubSeq(name, d + 1, Len(name))]

\* Vec::contains
Contains(list, x) == \E i \in 1..Len(list) : list[i] = x

\* the `continue` of get_all_files
Excluded(opts, name) ==
    LET x == extension(name)
    IN  x.some /\ Contains(opts.excluded_extensions, x.ext)

\* every order read_dir may yield a listing in
Orders(entries) ==
    {s \in [1..Cardinality(entries) -> entries] :
        \A i, j \in DOMAIN s : i # j => s[i] # s[j]}

RECURSIVE FolderFiles(_, _, _), ListFolders_stops(_, _, _)
\* the inner loop of get_all_files over the entries of one folder
FolderFiles(opts, folder, order) ==
    IF order = <<>> THEN <<>>
    ELSE LET e == Head(order)
             rest == FolderFiles(opts, folder, Tail(order))
         IN  IF e.kind = "file" /\ ~Excluded(opts, e.name)
             THEN <<folder \o <<Sep>> \o e.name>> \o rest
             ELSE rest

\* a folder that cannot be listed ends the enumeration
ListFolders_stops(opts, fsys, folders) ==
    IF folders = <<>> \/ ~Dir(fsys, Components(Head(folders))).exists THEN {<<>>}
    ELSE {h \o t : h \in {FolderFiles(opts, Head(folders), o) :
                            o \in Orders(Dir(fsys, Components(Head(folders))).entries)},
                   t \in ListFolders_stops(opts, fsys, Tail(folders))}

\* read_dir(folder): the possible results of listing one folder; an unreadable
\* or missing folder adds nothing
ReadFolder(opts, fsys, folder) ==
    LET d == Dir(fsys, Components(folder))
    IN  IF d.exists
        THEN {FolderFiles(opts, folder, o) : o \in Orders(d.entries)}
        ELSE {<<>>}

RECURSIVE ListFolders(_, _, _)
\* the outer loop of get_all_files
ListFolders(opts, fsys, folders) ==
    IF folders = <<>> THEN {<<>>}
    ELSE {h \o t : h \in ReadFolder(opts, fsys, Head(folders)),
                   t \in ListFolders(opts, fsys, Tail(folders))}

\* BackUpOptions::get_all_files: the lists it may return
get_all_files(opts, fsys) == ListFolders(opts, fsys, get_all_paths(opts))

----------------------------------------------------------------------------
\* Archive entry names

\* Path::strip_prefix: component-wise; with nothing to strip the path comes
\* back whole, otherwise what follows the prefix, leading separators trimmed
strip_prefix(path, base) ==
    LET cp == Components(path)
        cb == Components(base)
    IN  IF Len(cb) <= Len(cp) /\ SubSeq(cp, 1, Len(cb)) = cb
        THEN [ok |-> TRUE,
              path |-> IF cb = <<>> THEN path
                       ELSE JoinComponents(SubSeq(cp, Len(cb) + 1, Len(cp)))]
        ELSE [ok |-> FALSE, path |-> path]

\* the prefix is never taken off
EntryName_whole(path, base) == path

\* strip_prefix(..).unwrap_or(path), then to_string_lossy
EntryName(path, base) == strip_prefix(path, base).path

----------------------------------------------------------------------------
\* The metadata text

Space == " "
DigitChars == <<"0", "1", "2", "3", "4", "5", "6", "7", "8", "9">>

RECURSIVE Digits(_)
\* Display of an unsigned integer
Digits(n) ==
    IF n < 10 THEN <<DigitChars[n + 1]>>
    ELSE Digits(n \div 10) \o <<DigitChars[(n % 10) + 1]>>

RECURSIVE EscapeDebug(_)
\* the escapes of Debug for str: a quote and a backslash get a backslash
EscapeDebug(s) ==
    IF s = <<>> THEN <<>>
    ELSE (IF Head(s) \in {Quote, Backslash} THEN <<Backslash, Head(s)>>
          ELSE <<Head(s)>>) \o EscapeDebug(Tail(s))

RECURSIVE DebugList(_)
\* the elements of Debug for a Vec, separated by ", "
DebugList(items) ==
    IF items = <<>> THEN <<>>
    ELSE IF Len(items) = 1 THEN items[1]
    ELSE items[1] \o <<",", Space>> \o DebugList(Tail(items))

\* {:?} of Vec<Folders>: the variant names, bare
DebugFolders(tags) ==
    <<"[">> \o DebugList([i \in 1..Len(tags) |-> <<tags[i]>>]) \o <<"]">>

\* {:?} of Vec<String>: each string quoted and escaped
DebugStrings(strs) ==
    <<"[">>
    \o DebugList([i \in 1..Len(strs) |-> <<Quote>> \o EscapeDebug(strs[i]) \o <<Quote>>])
    \o <<"]">>

\* a key of the template, with its colon
Key(name) == <<Quote, name, Quote, ":", Space>>

\* duration_since(UNIX_EPOCH): seconds, or 0 for a clock before the epoch
TimestampSecs(t) == IF t >= 0 THEN t ELSE 0

\* BackUpData::format_json, after its call of count_files: the template of
\* lines 150-169 filled in (each run of blanks and line breaks is one Space)
format_json(d, opts) ==
    <<"{", Space>>
    \o Key("timestamp") \o Digits(TimestampSecs(d.timestamp)) \o <<",", Space>>
    \o Key("size_in_bytes") \o Digits(d.size_in_bytes) \o <<",", Space>>
    \o Key("file_count") \o Digits(d.file_count) \o <<",", Space>>
    \o Key("options") \o <<"{", Space>>
    \o Key("folder_options") \o DebugFolders(opts.folder_options) \o <<",", Space>>
    \o Key("destination_path")
    \o <<Quote>> \o opts.destination_path \o <<Quote, ",", Space>>
    \o Key("compress")
    \o <<IF opts.compress THEN "true" ELSE "false", ",", Space>>
    \o Key("excluded_extensions") \o DebugStrings(opts.excluded_extensions)
    \o <<Space, "}", Space, "}">>

\* "backup_data.json"
JsonName == <<"backup_data", Dot, "json">>
\* format!("{}/backup_data.json", destination_path)
JsonPath(opts) == opts.destination_path \o <<Sep>> \o JsonName
\* format!("{}/backup.zip", ..) or format!("{}/backup", ..)
ZipPath(opts) ==
    IF opts.compress THEN opts.destination_path \o <<Sep, "backup", Dot, "zip">>
    ELSE opts.destination_path \o <<Sep, "backup">>

----------------------------------------------------------------------------
\* The run: get_backup_size, BackUpData::new, create_json_file, zip_backup

Running == pc \notin {"done", "aborted"}

\* get_backup_size, line 78: list the files
get_backup_size_begin ==
    /\ pc = "size"
    /\ sizeFiles' \in get_all_files(options, fs)
    /\ total_size' = 0
    /\ idx' = 1
    /\ pc' = "size_loop"
    /\ UNCHANGED <<options, fs, data, jsonResult, zipFiles, zip, err, clock, vanished>>

\* metadata(file): the length of whatever the path names now
Metadata(fsys, p) ==
    IF Exists(fsys, p)
    THEN [ok |-> TRUE, len |-> (CHOOSE e \in EntryAt(fsys, p) : TRUE).len]
    ELSE [ok |-> FALSE, len |-> 0]

\* get_backup_size, lines 81-85: one turn of the loop
get_backup_size_stat ==
    /\ pc = "size_loop"
    /\ idx <= Len(sizeFiles)
    /\ LET m == Metadata(fs, sizeFiles[idx])
       IN  total_size' = IF m.ok THEN total_size + m.len ELSE total_size
    /\ idx' = idx + 1
    /\ UNCHANGED <<options, fs, pc, sizeFiles, data, jsonResult, zipFiles, zip,
                   err, clock, vanished>>

\* get_backup_size, line 87
get_backup_size_return ==
    /\ pc = "size_loop"
    /\ idx > Len(sizeFiles)
    /\ pc' = "new"
    /\ UNCHANGED <<options, fs, sizeFiles, idx, total_size, data, jsonResult,
                   zipFiles, zip, err, clock, vanished>>

\* BackUpData::new(options, size) with the size just measured
BackUpData_new ==
    /\ pc = "new"
    /\ data' = [timestamp |-> clock, size_in_bytes |-> total_size,
                file_count |-> 0]
    /\ pc' = "json"
    /\ UNCHANGED <<options, fs, sizeFiles, idx, total_size, jsonResult,
                   zipFiles, zip, err, clock, vanished>>

\* BackUpData::count_files (`as u32` changes no length a model list can have)
count_files(d, files) == [d EXCEPT !.file_count = Len(files)]

\* BackUpData::create_json_file: count, format, write; the Result goes back to
\* the caller, who then calls zip_backup
create_json_file ==
    /\ pc = "json"
    /\ \E files \in get_all_files(options, fs) :
       \E written \in IF CanCreate(fs, JsonPath(options)) THEN BOOLEAN ELSE {FALSE} :
          LET d == count_files(data, files)
          IN  /\ data' = d
              /\ fs' = IF written
                       THEN WriteFile(fs, JsonPath(options), format_json(d, options))
                       ELSE fs
              /\ jsonResult' = IF written THEN "ok" ELSE "err"
    /\ pc' = "zip"
    /\ UNCHANGED <<options, sizeFiles, idx, total_size, zipFiles, zip, err, clock, vanished>>

\* the Err is noted and the run goes on
Panic_swallowed(call) ==
    /\ err' = call
    /\ pc' = pc

\* an unwrap() of an Err: the run panics
Panic(call) ==
    /\ err' = call
    /\ pc' = "aborted"

\* zip_backup, lines 182-190: list the files, then create the container
zip_backup_begin ==
    /\ pc = "zip"
    /\ zipFiles' \in get_all_files(options, fs)
    /\ \E created \in IF CanCreate(fs, ZipPath(options)) THEN BOOLEAN ELSE {FALSE} :
          IF created
          THEN /\ fs' = WriteFile(fs, ZipPath(options), <<>>)
               /\ zip' = [state |-> "open", entries |-> <<>>]
               /\ idx' = 1
               /\ pc' = "zip_loop"
               /\ err' = err
          ELSE /\ Panic("create")
               /\ UNCHANGED <<fs, zip, idx>>
    /\ UNCHANGED <<options, sizeFiles, total_size, data, jsonResult, clock, vanished>>

\* start_file, File::open and copy of one file into the archive; `failed` is
\* the call that returned Err ("none": all three succeeded). A started entry
\* stays in the archive, whole only if copy succeeded.
WriteEntry(name, src, failed) ==
    IF failed = "none"
    THEN /\ zip' = [zip EXCEPT !.entries =
                      Append(@, [name |-> name, src |-> src, whole |-> TRUE])]
         /\ err' = err
    ELSE /\ zip' = IF failed = "start_file" THEN zip
                   ELSE [zip EXCEPT !.entries =
                           Append(@, [name |-> name, src |-> src, whole |-> FALSE])]
         /\ Panic(failed)

\* the calls of an entry that may return Err: File::open must when the file is
\* gone, any of them may (an I/O error, a name the writer refuses)
Failures(fsys, src) ==
    IF IsFile(fsys, src) THEN {"none", "start_file", "open", "copy"}
    ELSE {"start_file", "open"}

\* zip_backup, lines 195-203: one turn of the loop
zip_backup_file ==
    /\ pc = "zip_loop"
    /\ idx <= Len(zipFiles)
    /\ \E failed \in Failures(fs, zipFiles[idx]) :
          /\ WriteEntry(EntryName(zipFiles[idx], options.default_minecraft_path),
                        zipFiles[idx], failed)
          /\ IF failed = "none" THEN idx' = idx + 1 /\ pc' = pc ELSE idx' = idx
    /\ UNCHANGED <<options, fs, sizeFiles, total_size, data, jsonResult,
                   zipFiles, clock, vanished>>

\* zip_backup, lines 206-210: the metadata entry, if the standalone file exists
zip_backup_json ==
    /\ pc = "zip_loop"
    /\ idx > Len(zipFiles)
    /\ IF Exists(fs, JsonPath(options))
       THEN \E failed \in Failures(fs, JsonPath(options)) :
               /\ WriteEntry(JsonName, JsonPath(options), failed)
               /\ IF failed = "none" THEN pc' = "remove" ELSE TRUE
       ELSE /\ pc' = "finish"
            /\ UNCHANGED <<zip, err>>
    /\ UNCHANGED <<options, fs, sizeFiles, idx, total_size, data, jsonResult,
                   zipFiles, clock, vanished>>

\* zip_backup, line 212: remove_file(&json_path).unwrap()
zip_backup_remove ==
    /\ pc = "remove"
    /\ \E removed \in IF IsFile(fs, JsonPath(options)) THEN BOOLEAN ELSE {FALSE} :
          IF removed
          THEN /\ fs' = RemoveFile(fs, JsonPath(options))
               /\ pc' = "finish"
               /\ err' = err
          ELSE /\ Panic("remove_file")
               /\ fs' = fs
    /\ UNCHANGED <<options, sizeFiles, idx, total_size, data, jsonResult,
                   zipFiles, zip, clock, vanished>>

\* zip_backup, line 215: zip.finish().unwrap()
zip_backup_finish ==
    /\ pc = "finish"
    /\ \E finished \in BOOLEAN :
          IF finished
          THEN /\ zip' = [zip EXCEPT !.state = "finished"]
               /\ pc' = "done"
               /\ err' = err
          ELSE /\ Panic("finish")
               /\ zip' = zip
    /\ UNCHANGED <<options, fs, sizeFiles, idx, total_size, data, jsonResult,
                   zipFiles, clock, vanished>>

\* the names the run itself puts into the destination directory
Artifacts == {JsonName, <<"backup", Dot, "zip">>, <<"backup">>}

\* another process removes a file of a selected folder while the run is under
\* way (the case `if let Ok(metadata)` of get_backup_size allows for); the
\* destination's own files are the caller's to protect, and a removal before
\* the first listing is a different initial filesystem
Vanish ==
    /\ Running
    /\ pc # "size"
    /\ vanished < MaxVanish
    /\ \E i \in 1..Len(options.folder_options) :
          LET key == Components(get_all_paths(options)[i])
          IN  \E e \in Dir(fs, key).entries :
                 /\ e.kind = "file"
                 /\ e.name \notin Artifacts
                 /\ fs' = [fs EXCEPT ![key].entries = @ \ {e}]
    /\ vanished' = vanished + 1
    /\ UNCHANGED <<options, pc, sizeFiles, idx, total_size, data, jsonResult,
                   zipFiles, zip, err, clock>>

----------------------------------------------------------------------------
\* Initial states

\* every list over S of at most n elements
SeqsUpTo(S, n) == UNION {[1..k -> S] : k \in 0..n}

NoData == [timestamp |-> 0, size_in_bytes |-> 0, file_count |-> 0]
NoZip == [state |-> "none", entries |-> <<>>]

SourceFile(name, len) == [name |-> name, kind |-> "file", len |-> len, content |-> <<>>]
SubDir(name) == [name |-> name, kind |-> "dir", len |-> 0, content |-> <<>>]

\* a directory with the given listing
DirOf(entries) == [exists |-> TRUE, entries |-> entries]

\* the base directory of the runs of Spec
Base == <<Sep, "m">>
Out == <<Sep, "out">>

\* the files a selected folder may hold when a run of Spec starts
RunFiles == {SourceFile(<<"a", Dot, "txt">>, 1), SourceFile(<<"b", Dot, "tmp">>, 2)}

RunOptions ==
    [default_minecraft_path : {Base},
     folder_options : SeqsUpTo({"Saves", "Backups"}, MaxFolders),
     destination_path : {Out, FolderPath(Base, "Backups")},
     compress : BOOLEAN,
     excluded_extensions : {<<>>, << <<"tmp">> >>}]

\* the state every specification starts a call from
Fresh ==
    /\ sizeFiles = <<>>
    /\ zipFiles = <<>>
    /\ idx = 1
    /\ total_size = 0
    /\ data = NoData
    /\ jsonResult = "none"
    /\ zip = NoZip
    /\ err = "none"
    /\ vanished = 0

\* BackUpOptions::new (and add_excluded_extension) done, nothing called yet;
\* a folder is missing or holds some files, the destination is there, and, when
\* it is a folder of its own, empty
Init ==
    /\ options \in RunOptions
    /\ \E saves \in {NoDir, DirOf({SourceFile(<<"a", Dot, "txt">>, 1)}), DirOf(RunFiles)} :
       \E backups \in {DirOf(S) : S \in SUBSET {SourceFile(<<"a", Dot, "txt">>, 1)}} :
          fs = (Components(FolderPath(Base, "Saves")) :> saves)
               @@ (Components(FolderPath(Base, "Backups")) :> backups)
               @@ (Components(Out) :> DirOf({}))
    /\ clock = 1
    /\ pc = "size"
    /\ Fresh

Next ==
    \/ get_backup_size_begin
    \/ get_backup_size_stat
    \/ get_backup_size_return
    \/ BackUpData_new
    \/ create_json_file
    \/ zip_backup_begin
    \/ zip_backup_file
    \/ zip_backup_json
    \/ zip_backup_remove
    \/ zip_backup_finish
    \/ Vanish

Spec == Init /\ [][Next]_vars

----------------------------------------------------------------------------
\* Claims about a run (Spec)

JsonOnDisk == Exists(fs, JsonPath(options))

\* the entry zip_backup adds for the standalone metadata file
IsMetadataEntry(i) ==
    /\ i = Len(zipFiles) + 1
    /\ zip.entries[i].name = JsonName
    /\ zip.entries[i].src = JsonPath(options)

IsPrefix(s, t) == Len(s) <= Len(t) /\ SubSeq(t, 1, Len(s)) = s

\* C1: after a run that wrote the metadata with create_json_file and whose
\* zip_backup returned, the standalone backup_data.json is gone from disk and
\* the finished archive holds a whole entry named backup_data.json
C1_MetadataFolded ==
    (pc = "done" /\ jsonResult = "ok") =>
        /\ ~JsonOnDisk
        /\ zip.state = "finished"
        /\ \E i \in 1..Len(zip.entries) :
              /\ zip.entries[i].name = JsonName
              /\ zip.entries[i].src = JsonPath(options)
              /\ zip.entries[i].whole

\* a finished run with files in the archive and the metadata written
C1_Witness ==
    /\ pc = "done"
    /\ jsonResult = "ok"
    /\ Len(zip.entries) >= 3

C7_OrphanLeft ==
    (pc = "aborted" /\ jsonResult = "ok" /\ zip.state # "finished") => JsonOnDisk

\* C9: the container exists before any entry; the file entries are those of
\* the enumeration, in its order; the metadata entry comes after them all; the
\* standalone file is deleted only after it was copied whole, the archive
\* finalized only after the deletion; and no other entry is read from the
\* standalone file
C9_Order ==
    /\ Len(zip.entries) > 0 => (zip.state # "none" /\ IsFile(fs, ZipPath(options)))
    /\ Len(zip.entries) <= Len(zipFiles) + 1
    /\ \A i \in 1..Len(zip.entries) :
          IF i <= Len(zipFiles)
          THEN /\ zip.entries[i].src = zipFiles[i]
               /\ zip.entries[i].name =
                     EntryName(zipFiles[i], options.default_minecraft_path)
          ELSE IsMetadataEntry(i)
    /\ \A i \in 1..(Len(zip.entries) - 1) : zip.entries[i].whole
    /\ (jsonResult = "ok" /\ ~JsonOnDisk) =>
          /\ Len(zip.entries) = Len(zipFiles) + 1
          /\ zip.entries[Len(zip.entries)].whole
    /\ zip.state = "finished" => ~JsonOnDisk
    /\ \A i \in 1..Len(zip.entries) :
          Components(zip.entries[i].src) = Components(JsonPath(options))
             => IsMetadataEntry(i)

\* C9 without its last part (the standalone file has no other reader)
C9_OrderOnly ==
    /\ Len(zip.entries) > 0 => (zip.state # "none" /\ IsFile(fs, ZipPath(options)))
    /\ Len(zip.entries) <= Len(zipFiles) + 1
    /\ \A i \in 1..Len(zip.entries) :
          IF i <= Len(zipFiles)
          THEN /\ zip.entries[i].src = zipFiles[i]
               /\ zip.entries[i].name =
                     EntryName(zipFiles[i], options.default_minecraft_path)
          ELSE IsMetadataEntry(i)
    /\ \A i \in 1..(Len(zip.entries) - 1) : zip.entries[i].whole
    /\ (jsonResult = "ok" /\ ~JsonOnDisk) =>
          /\ Len(zip.entries) = Len(zipFiles) + 1
          /\ zip.entries[Len(zip.entries)].whole
    /\ zip.state = "finished" => ~JsonOnDisk

\* the file entries of the archive: all but the metadata entry
FileEntries == {i \in 1..Len(zip.entries) : ~IsMetadataEntry(i)}

\* C10: in a finished run that no other process interfered with, the
\* file_count of the metadata is the number of file entries of the archive
C10_CountMatchesArchive ==
    (pc = "done" /\ vanished = 0) => data.file_count = Cardinality(FileEntries)

\* the length a source file of the initial filesystem has
NominalLen(p) == IF BaseName(p) = <<"b", Dot, "tmp">> THEN 2 ELSE 1

RECURSIVE SumLen(_, _, _)
\* the sum of the lengths of the files of a list that satisfy keep
SumLen(files, fsys, present) ==
    IF files = <<>> THEN 0
    ELSE (IF present => Exists(fsys, Head(files)) THEN NominalLen(Head(files)) ELSE 0)
         + SumLen(Tail(files), fsys, present)

\* C4: once the metadata is formatted, file_count is the length of the list
\* get_backup_size measured, whether or not every file of it could be sized;
\* the size counts every file still there and nothing but the listed files
C4_CountIsMeasuredLength ==
    /\ pc \in {"new", "json"} =>
          /\ total_size >= SumLen(sizeFiles, fs, TRUE)
          /\ total_size <= SumLen(sizeFiles, fs, FALSE)
    /\ pc \in {"zip", "zip_loop", "remove", "finish", "done", "aborted"} =>
          data.file_count = Len(sizeFiles)

\* the part of C4 about the size alone
C4_SizeOnly ==
    pc \in {"new", "json"} =>
          /\ total_size >= SumLen(sizeFiles, fs, TRUE)
          /\ total_size <= SumLen(sizeFiles, fs, FALSE)

----------------------------------------------------------------------------
\* Enumeration alone (SpecEnum): get_backup_size on a filesystem nobody changes

\* what a selected folder may hold: plain names, a name starting with its only
\* dot, a name with no dot, a name ending in a dot, another case, a directory
EnumPool ==
    {SourceFile(<<"a", Dot, "txt">>, 1),
     SourceFile(<<"b", Dot, "tmp">>, 2),
     SourceFile(<<Dot, "tmp">>, 1),
     SourceFile(<<"c">>, 1),
     SourceFile(<<"d", Dot>>, 1),
     SourceFile(<<"e", Dot, "TMP">>, 1),
     SubDir(<<"s", Dot, "txt">>)}

\* most entries of one folder in SpecEnum
MaxEntries == 2

EnumOptions ==
    [default_minecraft_path : {Base},
     folder_options : {<<>>, <<"Saves">>, <<"Saves", "Mods">>, <<"Mods", "Saves">>,
                       <<"Saves", "Saves">>},
     destination_path : {Out},
     compress : {FALSE},
     excluded_extensions :
        {<<>>, << <<"tmp">> >>, << <<>> >>, << <<"txt">>, <<"tmp">> >>}]

InitEnum ==
    /\ options \in EnumOptions
    /\ \E saves \in {NoDir} \cup
                    {DirOf(S) : S \in {T \in SUBSET EnumPool : Cardinality(T) <= MaxEntries}} :
       \E mods \in {NoDir} \cup
                   {DirOf(S) : S \in SUBSET {SourceFile(<<"a", Dot, "txt">>, 1)}} :
          fs = (Components(FolderPath(Base, "Saves")) :> saves)
               @@ (Components(FolderPath(Base, "Mods")) :> mods)
               @@ (Components(Out) :> DirOf({}))
    /\ clock = 1
    /\ pc = "size"
    /\ Fresh

NextEnum ==
    \/ get_backup_size_begin
    \/ get_backup_size_stat
    \/ get_backup_size_return

SpecEnum == InitEnum /\ [][NextEnum]_vars

\* the selected folders that can be listed, in selection order
Readable(opts, fsys) ==
    SelectSeq(get_all_paths(opts), LAMBDA f : Dir(fsys, Components(f)).exists)

\* ext is the text after the last "." of name, which is not its first character
HasExtension(name, ext) ==
    \E d \in 2..Len(name) :
        /\ name[d] = Dot
        /\ ext = SubSeq(name, d + 1, Len(name))
        /\ \A j \in (d + 1)..Len(name) : name[j] # Dot

\* the text after the last "." of name wherever it stands, empty without one
TextAfterLastDot(name) ==
    IF \A j \in 1..Len(name) : name[j] # Dot THEN <<>>
    ELSE CHOOSE x \in {SubSeq(name, d + 1, Len(name)) : d \in 1..Len(name)} :
            \E d \in 1..Len(name) :
                /\ name[d] = Dot
                /\ x = SubSeq(name, d + 1, Len(name))
                /\ \A j \in (d + 1)..Len(name) : name[j] # Dot

\* every name some directory lists
Names(fsys) == {e.name : e \in UNION {fsys[k].entries : k \in DOMAIN fsys}}

\* the paths of the regular files, with a name in `kept`, of the selected
\* folders that can be listed
Eligible(opts, fsys, kept) ==
    LET folders == Readable(opts, fsys)
    IN  UNION {{folders[i] \o <<Sep>> \o e.name :
                    e \in {x \in Dir(fsys, Components(folders[i])).entries :
                              x.kind = "file" /\ x.name \in kept}} :
                i \in 1..Len(folders)}

\* how often path p occurs in the list
Occurrences(list, p) == Cardinality({i \in 1..Len(list) : list[i] = p})
\* how often the folder of path p is selected
Selections(opts, p) ==
    Cardinality({i \in 1..Len(opts.folder_options) :
                    Components(get_all_paths(opts)[i]) = DirKey(p)})

\* the list holds exactly the files with a name in `kept`, each once for
\* every selection of its folder
ListsExactly(list, opts, fsys, kept) ==
    LET eligible == Eligible(opts, fsys, kept)
    IN  /\ \A i \in 1..Len(list) : list[i] \in eligible
        /\ \A p \in eligible : Occurrences(list, p) = Selections(opts, p)

\* the names whose text after the last "." is not excluded
KeptByLastDotText ==
    {n \in Names(fs) : ~Contains(options.excluded_extensions, TextAfterLastDot(n))}

\* the names with no extension, or with one that is not excluded
KeptByExtension ==
    {n \in Names(fs) :
        \A i \in 1..Len(options.excluded_extensions) :
            ~HasExtension(n, options.excluded_extensions[i])}

\* C3 as claimed: the list holds exactly the regular files of the selected
\* folders whose text after the last "." of the name (empty if there is none)
\* is not an excluded extension
C3_AsClaimed ==
    pc # "size" => ListsExactly(sizeFiles, options, fs, KeptByLastDotText)

\* C3 as amended: a name has an extension only if its last "." is not its
\* first character; the list holds exactly the regular files of the selected
\* folders that have no extension or one that is not excluded, and never a
\* directory
C3_Enumerates ==
    pc # "size" =>
        /\ ListsExactly(sizeFiles, options, fs, KeptByExtension)
        /\ \A i \in 1..Len(sizeFiles) : IsFile(fs, sizeFiles[i])

\* a listing with an excluded file, a kept dot-file and a directory left out
C3_Witness ==
    /\ pc # "size"
    /\ options.excluded_extensions = << <<"tmp">> >>
    /\ options.folder_options = <<"Mods", "Saves">>
    /\ Len(sizeFiles) = 2
    /\ sizeFiles[2] = FolderPath(Base, "Saves") \o <<Sep, Dot, "tmp">>
    /\ \E e \in Dir(fs, Components(FolderPath(Base, "Saves"))).entries :
          e.name = <<"b", Dot, "tmp">>

\* the options with the folders that cannot be listed taken out
WithoutMissing(opts, fsys) ==
    [opts EXCEPT !.folder_options =
        SelectSeq(opts.folder_options,
                  LAMBDA t : Dir(fsys, Components(FolderPath(opts.default_minecraft_path, t))).exists)]

\* C5: the list is one that the remaining folders alone give, in their order;
\* nothing in it lies in a missing folder, and every eligible file of a folder
\* selected after a missing one is in it
C5_MissingFolderSkipped ==
    pc # "size" =>
        /\ sizeFiles \in get_all_files(WithoutMissing(options, fs), fs)
        /\ \A i \in 1..Len(sizeFiles) : Dir(fs, DirKey(sizeFiles[i])).exists
        /\ ListsExactly(sizeFiles, options, fs, KeptByExtension)

\* a missing folder selected first, and the file of the folder after it listed
C5_Witness ==
    /\ pc # "size"
    /\ options.folder_options = <<"Saves", "Mods">>
    /\ ~Dir(fs, Components(FolderPath(Base, "Saves"))).exists
    /\ sizeFiles = <<FolderPath(Base, "Mods") \o <<Sep, "a", Dot, "txt">> >>

----------------------------------------------------------------------------
\* Entry names alone (SpecPath): zip_backup under every short base directory

\* every base directory string of at most MaxBaseLen atoms
Bases == SeqsUpTo({Sep, Dot, "m"}, MaxBaseLen)

PathOptions ==
    [default_minecraft_path : Bases,
     folder_options : {<<"Saves">>, <<"Logs", "Saves">>},
     destination_path : {Out},
     compress : {TRUE},
     excluded_extensions : {<<>>}]

\* create_json_file has returned ("ok": the standalone file is on disk)
InitPath ==
    /\ options \in PathOptions
    /\ jsonResult \in {"ok", "err"}
    /\ data = NoData
    /\ fs = (Components(FolderPath(options.default_minecraft_path, "Saves"))
                :> DirOf({SourceFile(<<"a", Dot, "txt">>, 1)}))
            @@ (Components(FolderPath(options.default_minecraft_path, "Logs"))
                :> DirOf({SourceFile(<<Dot, "log">>, 1)}))
            @@ (Components(Out)
                :> DirOf(IF jsonResult = "ok"
                         THEN {[name |-> JsonName, kind |-> "file",
                                len |-> Len(format_json(NoData, options)),
                                content |-> format_json(NoData, options)]}
                         ELSE {}))
    /\ clock = 1
    /\ pc = "zip"
    /\ sizeFiles = <<>>
    /\ zipFiles = <<>>
    /\ idx = 1
    /\ total_size = 0
    /\ zip = NoZip
    /\ err = "none"
    /\ vanished = 0

NextPath ==
    \/ zip_backup_begin
    \/ zip_backup_file
    \/ zip_backup_json
    \/ zip_backup_remove
    \/ zip_backup_finish

SpecPath == InitPath /\ [][NextPath]_vars

\* the entry written for the i-th enumerated file names that file with the
\* base directory and one separator taken off its front, and is relative
NamedRelative(i) ==
    /\ zipFiles[i] =
          options.default_minecraft_path \o <<Sep>> \o zip.entries[i].name
    /\ ~IsAbsolute(zip.entries[i].name)

\* C2 as claimed: for every base directory string, every file entry is named
\* by the file's path without the base prefix, and no name is absolute
C2_AsClaimed ==
    \A i \in 1..Len(zip.entries) : i <= Len(zipFiles) => NamedRelative(i)

\* C2 as amended: the same for every base directory string that is not
\* empty; under the empty base the entry is named by the file's whole path
C2_EntryNames ==
    \A i \in 1..Len(zip.entries) :
        i <= Len(zipFiles) =>
            IF options.default_minecraft_path # <<>>
            THEN NamedRelative(i)
            ELSE zip.entries[i].name = zipFiles[i]

\* a finished archive of two folders under a base written with a trailing
\* separator
C2_Witness ==
    /\ pc = "done"
    /\ options.default_minecraft_path = <<Sep, "m", Sep>>
    /\ Len(zipFiles) = 2
    /\ zip.entries[1].name = <<"logs", Sep, Dot, "log">>
    /\ zip.entries[2].name = <<"saves", Sep, "a", Dot, "txt">>

----------------------------------------------------------------------------
\* The metadata text alone (SpecJson): BackUpData::new, then create_json_file

JsonOptions ==
    [default_minecraft_path : {Base},
     folder_options : SeqsUpTo(Folders, MaxFolders),
     destination_path : {Out, <<"o", Quote, "x">>, <<"c", Backslash, "o">>},
     compress : BOOLEAN,
     excluded_extensions : {<<>>, << <<"tmp">> >>, << <<"tmp">>, <<"t", Quote>> >>}]

\* get_backup_size has returned some size; the clock stands anywhere
InitJson ==
    /\ options \in JsonOptions
    /\ fs = (Components(FolderPath(Base, "Saves"))
                :> DirOf({SourceFile(<<"a", Dot, "txt">>, 1)}))
            @@ (Components(options.destination_path) :> DirOf({}))
    /\ clock \in {-1, 0, MaxNum}
    /\ total_size \in {0, MaxNum}
    /\ pc = "new"
    /\ sizeFiles = <<>>
    /\ zipFiles = <<>>
    /\ idx = 1
    /\ data = NoData
    /\ jsonResult = "none"
    /\ zip = NoZip
    /\ err = "none"
    /\ vanished = 0

NextJson ==
    \/ BackUpData_new
    \/ create_json_file

SpecJson == InitJson /\ [][NextJson]_vars

\* A reader of structured (JSON) text. Every parser takes the text and a
\* position and gives [ok, val, next].

RECURSIVE SkipSpace(_, _)
SkipSpace(t, i) == IF i <= Len(t) /\ t[i] = Space THEN SkipSpace(t, i + 1) ELSE i

Fail(t) == [ok |-> FALSE, val |-> <<>>, next |-> Len(t) + 1]

\* the atoms of lit, then any blanks
ReadLit(t, i, lit) ==
    IF i + Len(lit) - 1 <= Len(t) /\ SubSeq(t, i, i + Len(lit) - 1) = lit
    THEN [ok |-> TRUE, val |-> lit, next |-> SkipSpace(t, i + Len(lit))]
    ELSE Fail(t)

DigitValue(c) == CHOOSE v \in 0..9 : DigitChars[v + 1] = c
IsDigit(t, i) == i <= Len(t) /\ \E v \in 0..9 : DigitChars[v + 1] = t[i]

RECURSIVE ReadDigits(_, _, _)
ReadDigits(t, i, acc) ==
    IF IsDigit(t, i) THEN ReadDigits(t, i + 1, 10 * acc + DigitValue(t[i]))
    ELSE [ok |-> TRUE, val |-> acc, next |-> SkipSpace(t, i)]

\* a number: digits, no leading zero
ReadNumber(t, i) ==
    IF ~IsDigit(t, i) \/ (t[i] = "0" /\ IsDigit(t, i + 1)) THEN Fail(t)
    ELSE ReadDigits(t, i, 0)

RECURSIVE ReadChars(_, _)
\* the characters of a string up to its closing quote
ReadChars(t, i) ==
    IF i > Len(t) THEN Fail(t)
    ELSE IF t[i] = Quote THEN [ok |-> TRUE, val |-> <<>>, next |-> SkipSpace(t, i + 1)]
    ELSE IF t[i] = Backslash
         THEN IF i + 1 <= Len(t) /\ t[i + 1] \in {Quote, Backslash, Sep}
              THEN LET r == ReadChars(t, i + 2)
                   IN  [r EXCEPT !.val = <<t[i + 1]>> \o @]
              ELSE Fail(t)
    ELSE LET r == ReadChars(t, i + 1)
         IN  [r EXCEPT !.val = <<t[i]>> \o @]

\* a string: a quote, characters, a quote
ReadString(t, i) ==
    IF i <= Len(t) /\ t[i] = Quote THEN ReadChars(t, i + 1) ELSE Fail(t)

ReadBool(t, i) ==
    IF i <= Len(t) /\ t[i] \in {"true", "false"}
    THEN [ok |-> TRUE, val |-> (t[i] = "true"), next |-> SkipSpace(t, i + 1)]
    ELSE Fail(t)

RECURSIVE ReadMoreStrings(_, _)
\* after an element of an array of strings: "]" or "," and another element
ReadMoreStrings(t, i) ==
    IF ReadLit(t, i, <<"]">>).ok
    THEN [ok |-> TRUE, val |-> <<>>, next |-> ReadLit(t, i, <<"]">>).next]
    ELSE LET c == ReadLit(t, i, <<",">>)
             e == ReadString(t, c.next)
             r == ReadMoreStrings(t, e.next)
         IN  IF c.ok /\ e.ok /\ r.ok
             THEN [ok |-> TRUE, val |-> <<e.val>> \o r.val, next |-> r.next]
             ELSE Fail(t)

\* an array of strings
ReadStrings(t, i) ==
    LET o == ReadLit(t, i, <<"[">>)
    IN  IF ~o.ok THEN Fail(t)
        ELSE IF ReadLit(t, o.next, <<"]">>).ok
             THEN [ok |-> TRUE, val |-> <<>>, next |-> ReadLit(t, o.next, <<"]">>).next]
        ELSE LET e == ReadString(t, o.next)
                 r == ReadMoreStrings(t, e.next)
             IN  IF e.ok /\ r.ok
                 THEN [ok |-> TRUE, val |-> <<e.val>> \o r.val, next |-> r.next]
                 ELSE Fail(t)

\* a key and its colon
ReadKey(t, i, name) ==
    LET k == ReadString(t, i)
        c == ReadLit(t, k.next, <<":">>)
    IN  IF k.ok /\ k.val = <<name>> /\ c.ok THEN c ELSE Fail(t)

\* the whole record, its members in the order of the template
ReadRecord(t) ==
    LET a  == ReadLit(t, 1, <<"{">>)
        k1 == ReadKey(t, a.next, "timestamp")
        v1 == ReadNumber(t, k1.next)
        c1 == ReadLit(t, v1.next, <<",">>)
        k2 == ReadKey(t, c1.next, "size_in_bytes")
        v2 == ReadNumber(t, k2.next)
        c2 == ReadLit(t, v2.next, <<",">>)
        k3 == ReadKey(t, c2.next, "file_count")
        v3 == ReadNumber(t, k3.next)
        c3 == ReadLit(t, v3.next, <<",">>)
        k4 == ReadKey(t, c3.next, "options")
        b  == ReadLit(t, k4.next, <<"{">>)
        k5 == ReadKey(t, b.next, "folder_options")
        v5 == ReadStrings(t, k5.next)
        c5 == ReadLit(t, v5.next, <<",">>)
        k6 == ReadKey(t, c5.next, "destination_path")
        v6 == ReadString(t, k6.next)
        c6 == ReadLit(t, v6.next, <<",">>)
        k7 == ReadKey(t, c6.next, "compress")
        v7 == ReadBool(t, k7.next)
        c7 == ReadLit(t, v7.next, <<",">>)
        k8 == ReadKey(t, c7.next, "excluded_extensions")
        v8 == ReadStrings(t, k8.next)
        e1 == ReadLit(t, v8.next, <<"}">>)
        e2 == ReadLit(t, e1.next, <<"}">>)
    IN  [ok |-> /\ a.ok /\ k1.ok /\ v1.ok /\ c1.ok /\ k2.ok /\ v2.ok /\ c2.ok
                /\ k3.ok /\ v3.ok /\ c3.ok /\ k4.ok /\ b.ok /\ k5.ok /\ v5.ok
                /\ c5.ok /\ k6.ok /\ v6.ok /\ c6.ok /\ k7.ok /\ v7.ok /\ c7.ok
                /\ k8.ok /\ v8.ok /\ e1.ok /\ e2.ok /\ e2.next = Len(t) + 1,
         timestamp |-> v1.val, size_in_bytes |-> v2.val, file_count |-> v3.val,
         folder_options |-> v5.val, destination_path |-> v6.val,
         compress |-> v7.val, excluded_extensions |-> v8.val]

\* the text of the standalone metadata file
JsonText == (CHOOSE e \in EntryAt(fs, JsonPath(options)) : TRUE).content

\* C8: the text create_json_file wrote reads back as the record it was made
\* from: the same timestamp, size, count and options
C8_RoundTrip ==
    jsonResult = "ok" =>
        LET r == ReadRecord(JsonText)
        IN  /\ r.ok
            /\ r.timestamp = TimestampSecs(data.timestamp)
            /\ r.size_in_bytes = data.size_in_bytes
            /\ r.file_count = data.file_count
            /\ r.folder_options =
                  [i \in 1..Len(options.folder_options) |-> <<options.folder_options[i]>>]
            /\ r.destination_path = options.destination_path
            /\ r.compress = options.compress
            /\ r.excluded_extensions = options.excluded_extensions

\* the records whose text does read back: no folder selected, and no quote or
\* backslash in the destination path
C8_PlainOnly ==
    (jsonResult = "ok" /\ options.folder_options = <<>>
        /\ \A i \in 1..Len(options.destination_path) :
              options.destination_path[i] \notin {Quote, Backslash}) =>
        LET r == ReadRecord(JsonText)
        IN  /\ r.ok
            /\ r.timestamp = TimestampSecs(data.timestamp)
            /\ r.size_in_bytes = data.size_in_bytes
            /\ r.file_count = data.file_count
            /\ r.folder_options = <<>>
            /\ r.destination_path = options.destination_path
            /\ r.compress = options.compress
            /\ r.excluded_extensions = options.excluded_extensions

====
